---- MODULE Spec2Model ----
(***************************************************************************)
(* A model of src/src/oauth.rs: the spoofed device (Device), the token     *)
(* client (Oauth::new, Oauth::login, Oauth::refresh), the start-up         *)
(* (initialize) and the renewal loop (token_daemon), with the read-write   *)
(* lock OAUTH_CLIENT that guards the one shared Oauth value.               *)
(***************************************************************************)
EXTENDS Integers, Sequences, FiniteSets, TLC

(***************************************************************************)
(* Bounds of the model.                                                    *)
(***************************************************************************)
\* Number of other tasks that take read access to OAUTH_CLIENT.
NumReaders == 1

Readers == 1..NumReaders

(***************************************************************************)
(* Program constants.                                                      *)
(***************************************************************************)
REDDIT_ANDROID_OAUTH_CLIENT_ID == "ohXpoqrZYub1kg"

REDDIT_IOS_OAUTH_CLIENT_ID == "LNDo9k1o8UAEUw"

AUTH_ENDPOINT == "https://accounts.reddit.com"

ANDROID_USER_AGENT ==
  << "Reddit/Version 2023.21.0/Build 956283/Android 13",
     "Reddit/Version 2023.21.0/Build 968223/Android 10",
     "Reddit/Version 2023.21.0/Build 946732/Android 12" >>

IOS_USER_AGENT ==
  << "Reddit/Version 2023.22.0/Build 613580/iOS Version 17.0 (Build 21A5248V)",
     "Reddit/Version 2023.22.0/Build 613580/iOS Version 16.0 (Build 20A5328h)",
     "Reddit/Version 2023.22.0/Build 613580/iOS Version 16.5" >>

IOS_DEVICES ==
  << "iPhone8,1", "iPhone11,1", "iPhone12,1", "iPhone13,1", "iPhone14,1" >>

\* The two minutes the daemon wakes up before the expiry.
SafetyMarginSecs == 120

(***************************************************************************)
(* Strings as characters: the characters of the two client ids, for the    *)
(* base64 encoding of the Basic credentials.                               *)
(***************************************************************************)
B64Alphabet ==
  << "A","B","C","D","E","F","G","H","I","J","K","L","M",
     "N","O","P","Q","R","S","T","U","V","W","X","Y","Z",
     "a","b","c","d","e","f","g","h","i","j","k","l","m",
     "n","o","p","q","r","s","t","u","v","w","x","y","z",
     "0","1","2","3","4","5","6","7","8","9","+","/" >>

\* The characters of a client id (a TLC string cannot be indexed).
Chars(id) ==
  IF id = REDDIT_ANDROID_OAUTH_CLIENT_ID
    THEN << "o","h","X","p","o","q","r","Z","Y","u","b","1","k","g" >>
    ELSE << "L","N","D","o","9","k","1","o","8","U","A","E","U","w" >>

\* The ASCII code of a letter, a digit or the colon.
AsciiCode(c) ==
  IF c = ":" THEN 58
  ELSE LET i == CHOOSE j \in 1..62 : B64Alphabet[j] = c
       IN  IF i <= 26 THEN 64 + i
           ELSE IF i <= 52 THEN 97 + (i - 27)
           ELSE 48 + (i - 53)

Bytes(chars) == [i \in 1..Len(chars) |-> AsciiCode(chars[i])]

\* general_purpose::STANDARD.encode: 3 bytes to 4 sextets, "=" padding.
RECURSIVE Base64Encode(_)
Base64Encode(bytes) ==
  IF Len(bytes) = 0 THEN ""
  ELSE LET b1 == bytes[1]
           b2 == IF Len(bytes) >= 2 THEN bytes[2] ELSE 0
           b3 == IF Len(bytes) >= 3 THEN bytes[3] ELSE 0
           n  == b1 * 65536 + b2 * 256 + b3
           c1 == B64Alphabet[(n \div 262144) + 1]
           c2 == B64Alphabet[((n \div 4096) % 64) + 1]
           c3 == IF Len(bytes) >= 2 THEN B64Alphabet[((n \div 64) % 64) + 1] ELSE "="
           c4 == IF Len(bytes) >= 3 THEN B64Alphabet[(n % 64) + 1] ELSE "="
           rest == IF Len(bytes) > 3 THEN SubSeq(bytes, 4, Len(bytes)) ELSE << >>
       IN  c1 \o c2 \o c3 \o c4 \o Base64Encode(rest)

(***************************************************************************)
(* HashMap<String, String>: a function from its keys to their values.      *)
(***************************************************************************)
\* A map rebuilt from the one pair instead of the pair merged into it.
InsertAlone(m, k, v) == [x \in {k} |-> v]

Insert(m, k, v) == [x \in (DOMAIN m) \cup {k} |-> IF x = k THEN v ELSE m[x]]

(***************************************************************************)
(* Device.                                                                 *)
(***************************************************************************)
\* The values uuid::Uuid::new_v4() is drawn from.
Uuids == {"2b0f4c7e-uuid"}

\* An Android device that draws its user agent from the iOS pool.
DeviceAndroidIosAgent(uuid, ua) ==
  [ oauth_id |-> REDDIT_ANDROID_OAUTH_CLIENT_ID,
    headers  |-> ("Client-Vendor-Id" :> uuid) @@ ("X-Reddit-Device-Id" :> uuid)
                 @@ ("User-Agent" :> IOS_USER_AGENT[ua]) ]

DeviceAndroid(uuid, ua) ==
  [ oauth_id |-> REDDIT_ANDROID_OAUTH_CLIENT_ID,
    headers  |-> ("Client-Vendor-Id" :> uuid) @@ ("X-Reddit-Device-Id" :> uuid)
                 @@ ("User-Agent" :> ANDROID_USER_AGENT[ua]) ]

DeviceIos(uuid, ua, dev) ==
  [ oauth_id |-> REDDIT_IOS_OAUTH_CLIENT_ID,
    headers  |-> ("X-Reddit-DPR" :> "2") @@ ("Device-Name" :> IOS_DEVICES[dev])
                 @@ ("X-Reddit-Device-Id" :> uuid)
                 @@ ("User-Agent" :> IOS_USER_AGENT[ua])
                 @@ ("Client-Vendor-Id" :> uuid) ]

\* Every device Device::random() can return.
DeviceRandom ==
  { DeviceAndroid(u, ua) : u \in Uuids, ua \in 1..Len(ANDROID_USER_AGENT) }
  \cup
  { DeviceIos(u, ua, dev) : u \in Uuids, ua \in 1..Len(IOS_USER_AGENT),
                            dev \in 1..Len(IOS_DEVICES) }

(***************************************************************************)
(* Option<T>: None is the empty sequence, Some(x) the sequence of x.       *)
(***************************************************************************)
None == << >>

Some(x) == << x >>

(***************************************************************************)
(* u64 arithmetic, on four 16-bit limbs (least significant first), so that *)
(* a subtraction modulo 2^64 is computed and not assumed.                  *)
(***************************************************************************)
Limb == 2^16

\* A number below 2^32 as a u64.
ToU64(n) == << n % Limb, (n \div Limb) % Limb, 0, 0 >>

\* a - b, limb by limb with borrow: the difference modulo 2^64 and whether
\* the subtraction overflowed (a < b).
U64Sub(a, b) ==
  LET d1 == a[1] - b[1]
      w1 == IF d1 < 0 THEN 1 ELSE 0
      d2 == a[2] - b[2] - w1
      w2 == IF d2 < 0 THEN 1 ELSE 0
      d3 == a[3] - b[3] - w2
      w3 == IF d3 < 0 THEN 1 ELSE 0
      d4 == a[4] - b[4] - w3
      w4 == IF d4 < 0 THEN 1 ELSE 0
  IN  [ value    |-> << d1 + w1 * Limb, d2 + w2 * Limb, d3 + w3 * Limb, d4 + w4 * Limb >>,
        overflow |-> (w4 = 1) ]

(***************************************************************************)
(* The request Oauth::login builds.                                        *)
(***************************************************************************)
\* http::HeaderName normalises a header name to lower case.
HeaderNameLower(k) ==
  CASE k = "Authorization"      -> "authorization"
    [] k = "Client-Vendor-Id"   -> "client-vendor-id"
    [] k = "X-Reddit-Device-Id" -> "x-reddit-device-id"
    [] k = "User-Agent"         -> "user-agent"
    [] k = "X-Reddit-DPR"       -> "x-reddit-dpr"
    [] k = "Device-Name"        -> "device-name"
    [] OTHER                    -> k

\* base64::engine::general_purpose::STANDARD.encode(format!("{}:", oauth_id))
\* for the client ids a device can carry.
EncodedClientId ==
  [ id \in { REDDIT_ANDROID_OAUTH_CLIENT_ID, REDDIT_IOS_OAUTH_CLIENT_ID } |->
      Base64Encode(Bytes(Chars(id) \o << ":" >>)) ]

\* format!("Basic {auth}") of the base64 of format!("{}:", oauth_id).
BasicAuth(oauth_id) == "Basic " \o EncodedClientId[oauth_id]

\* The loop over headers_map without its test of the key.
SpoofedHeadersAll(h) ==
  { << HeaderNameLower(k), h[k] >> : k \in DOMAIN h }

\* The loop over headers_map that skips "Authorization".
SpoofedHeaders(h) ==
  { << HeaderNameLower(k), h[k] >> : k \in { x \in DOMAIN h : x # "Authorization" } }

\* The headers of the request: builder.header appends, so they are a
\* collection of (name, value) pairs.
RequestHeaders(h, oauth_id) ==
  SpoofedHeaders(h) \cup { << "authorization", BasicAuth(oauth_id) >> }

BuildRequest(h, oauth_id) ==
  [ method  |-> "POST",
    uri     |-> AUTH_ENDPOINT \o "/api/access_token",
    headers |-> RequestHeaders(h, oauth_id),
    body    |-> "{\"scopes\":[\"*\",\"email\",\"pii\"]}" ]

NoRequest == [ method |-> "", uri |-> "", headers |-> {}, body |-> "" ]

(***************************************************************************)
(* The responses of the endpoint.                                          *)
(***************************************************************************)
\* serde_json::Value, as far as login looks at it.
JString(s) == [ type |-> "string", str |-> s, num |-> 0 ]

JNumber(n) == [ type |-> "number", str |-> "", num |-> n ]

JObject(fields) == [ type |-> "object", fields |-> fields ]

JArray == [ type |-> "array", fields |-> << >> ]

\* Value::get: a member of an object, None for any other value.
JsonGet(json, key) ==
  IF json.type = "object" /\ key \in DOMAIN json.fields
    THEN Some(json.fields[key]) ELSE None

\* Value::as_str
AsStr(v) == IF v.type = "string" THEN Some(v.str) ELSE None

\* Value::as_u64: a number that is a non-negative integer.
AsU64(v) == IF v.type = "number" /\ v.num >= 0 THEN Some(v.num) ELSE None

\* HeaderValue::to_str: the text of a value whose bytes are all visible ASCII.
ToStr(hv) == IF hv.visible_ascii THEN Some(hv.text) ELSE None

Tokens == { "abc123", "def456" }

ExpiresValues == { 60, 120, 3600 }

LoidValues == { "xyz", "uvw" }

AccessTokenFields == { None, Some(JNumber(42)) } \cup { Some(JString(t)) : t \in Tokens }

ExpiresInFields ==
  { None, Some(JString("3600")), Some(JNumber(-1)) }
  \cup { Some(JNumber(e)) : e \in ExpiresValues }

JsonObjects ==
  { JObject( (IF at = None THEN << >> ELSE ("access_token" :> at[1]))
             @@ (IF ei = None THEN << >> ELSE ("expires_in" :> ei[1])) ) :
      at \in AccessTokenFields, ei \in ExpiresInFields }

\* A body: whether hyper::body::to_bytes reads it, and what
\* serde_json::from_slice makes of its bytes.
Bodies ==
  { [ read_ok |-> FALSE, json |-> None ], [ read_ok |-> TRUE, json |-> None ],
    [ read_ok |-> TRUE, json |-> Some(JArray) ] }
  \cup { [ read_ok |-> TRUE, json |-> Some(j) ] : j \in JsonObjects }

\* The x-reddit-loid header of a response: absent, text, or opaque bytes.
LoidHeaders ==
  { None, Some([ visible_ascii |-> FALSE, text |-> "" ]) }
  \cup { Some([ visible_ascii |-> TRUE, text |-> v ]) : v \in LoidValues }

StatusCodes == { 200, 500 }

TransportError == [ kind |-> "error", status |-> 0, loid |-> None,
                    body |-> [ read_ok |-> FALSE, json |-> None ] ]

Responses ==
  { TransportError }
  \cup { [ kind |-> "response", status |-> s, loid |-> l, body |-> b ] :
           s \in StatusCodes, l \in LoidHeaders, b \in Bodies }

NoResponse == [ kind |-> "none", status |-> 0, loid |-> None,
                body |-> [ read_ok |-> FALSE, json |-> None ] ]

(***************************************************************************)
(* The state.                                                              *)
(***************************************************************************)
VARIABLES
  headers_map,      \* Oauth.headers_map
  token,            \* Oauth.token
  expires_in,       \* Oauth.expires_in
  device,           \* Oauth.device
  lock_writer,      \* the task holding OAUTH_CLIENT.write(), or "none"
  lock_readers,     \* the tasks holding OAUTH_CLIENT.read()
  read_waiters,     \* the tasks queued in OAUTH_CLIENT.read().await
  init_pc,          \* where initialize() is
  daemon_pc,        \* where token_daemon() is
  expires_read,     \* token_daemon's local expires_in
  duration,         \* token_daemon's local duration, in seconds (a u64)
  request,          \* the request login sent last
  requests_in_call, \* requests the login that is running has sent
  resp,             \* the response login is about to handle
  overflow_checks,  \* whether the build checks integer overflow (debug)
  last_result,      \* what the last login that returned has returned
  initial_login,    \* what the login of initialize() has returned
  last_loid_header, \* the last x-reddit-loid header received, as received
  last_loid,        \* the last x-reddit-loid header received that is text
  last_ok_expires,  \* the expires_in of the last successful exchange
  last_ok_status,   \* the HTTP status of the response the last login took its
                    \* token from; 0 while a login runs or when it took none
  reads_since,      \* expiry reads of the daemon since its last refresh
  sleeps_since      \* sleeps of the daemon since its last refresh

vars ==
  << headers_map, token, expires_in, device, lock_writer, lock_readers,
     read_waiters, init_pc, daemon_pc, expires_read, duration, request,
     requests_in_call, resp, overflow_checks, last_result, initial_login,
     last_loid_header, last_loid, last_ok_expires, last_ok_status,
     reads_since, sleeps_since >>

oauth_vars == << headers_map, token, expires_in, device >>

daemon_locals == << expires_read, duration >>

history_vars ==
  << last_result, initial_login, last_loid_header, last_loid, last_ok_expires >>

cycle_vars == << reads_since, sleeps_since >>

\* Oauth::new, with the device one of those Device::random() returns.
Init ==
  /\ device \in DeviceRandom
  /\ headers_map = device.headers
  /\ token = ""
  /\ expires_in = 0
  /\ lock_writer = "none"
  /\ lock_readers = {}
  /\ read_waiters = {}
  /\ init_pc = "start"
  /\ daemon_pc = "unspawned"
  /\ expires_read = 0
  /\ duration = ToU64(0)
  /\ request = NoRequest
  /\ requests_in_call = 0
  /\ resp = NoResponse
  /\ overflow_checks \in BOOLEAN
  /\ last_result = "none"
  /\ initial_login = "pending"
  /\ last_loid_header = None
  /\ last_loid = "none"
  /\ last_ok_expires = -1
  /\ last_ok_status = 0
  /\ reads_since = 0
  /\ sleeps_since = 0

(***************************************************************************)
(* Oauth::login, from the response on (lines 88 to 109): the Oauth value   *)
(* it leaves and the Option it returns.                                    *)
(***************************************************************************)
Returned(h, t, e, result) ==
  [ headers_map |-> h, token |-> t, expires_in |-> e, result |-> result ]

\* Lines 99 to 109 without the insert of line 105.
LoginBodyHeaderKept(h, t, e, r) ==
  IF ~r.body.read_ok THEN Returned(h, t, e, "None")
  ELSE IF r.body.json = None THEN Returned(h, t, e, "None")
  ELSE LET json == r.body.json[1]
           at   == JsonGet(json, "access_token")
           ei   == JsonGet(json, "expires_in")
       IN  IF at = None THEN Returned(h, t, e, "None")
           ELSE IF AsStr(at[1]) = None THEN Returned(h, t, e, "None")
           ELSE LET t1 == AsStr(at[1])[1]
                IN  IF ei = None THEN Returned(h, t1, e, "None")
                    ELSE IF AsU64(ei[1]) = None THEN Returned(h, t1, e, "None")
                    ELSE Returned(h, t1, AsU64(ei[1])[1], "Some")

\* Lines 99 to 109 with lines 104 and 105 in the other order: the header is
\* inserted before expires_in is looked at.
LoginBodyHeaderFirst(h, t, e, r) ==
  IF ~r.body.read_ok THEN Returned(h, t, e, "None")
  ELSE IF r.body.json = None THEN Returned(h, t, e, "None")
  ELSE LET json == r.body.json[1]
           at   == JsonGet(json, "access_token")
           ei   == JsonGet(json, "expires_in")
       IN  IF at = None THEN Returned(h, t, e, "None")
           ELSE IF AsStr(at[1]) = None THEN Returned(h, t, e, "None")
           ELSE LET t1 == AsStr(at[1])[1]
                    h1 == Insert(h, "Authorization", "Bearer " \o t1)
                IN  IF ei = None THEN Returned(h1, t1, e, "None")
                    ELSE IF AsU64(ei[1]) = None THEN Returned(h1, t1, e, "None")
                    ELSE Returned(h1, t1, AsU64(ei[1])[1], "Some")

\* Lines 99 to 109, with the headers as the loid header left them.
LoginBody(h, t, e, r) ==
  IF ~r.body.read_ok THEN Returned(h, t, e, "None")
  ELSE IF r.body.json = None THEN Returned(h, t, e, "None")
  ELSE LET json == r.body.json[1]
           at   == JsonGet(json, "access_token")
           ei   == JsonGet(json, "expires_in")
       IN  IF at = None THEN Returned(h, t, e, "None")
           ELSE IF AsStr(at[1]) = None THEN Returned(h, t, e, "None")
           ELSE LET t1 == AsStr(at[1])[1]
                IN  \* self.token is assigned before expires_in is looked at
                    IF ei = None THEN Returned(h, t1, e, "None")
                    ELSE IF AsU64(ei[1]) = None THEN Returned(h, t1, e, "None")
                    ELSE Returned(Insert(h, "Authorization", "Bearer " \o t1),
                                  t1, AsU64(ei[1])[1], "Some")

\* login without lines 93 to 95.
LoginOutcomeLoidDropped(h, t, e, r) ==
  IF r.kind = "error" THEN Returned(h, t, e, "None")
  ELSE IF r.loid = None THEN LoginBody(h, t, e, r)
  ELSE IF ToStr(r.loid[1]) = None THEN Returned(h, t, e, "None")
  ELSE LoginBody(h, t, e, r)

\* A login that returns None at once on a status other than 200.
LoginOutcomeStatusChecked(h, t, e, r) ==
  IF r.kind = "error" THEN Returned(h, t, e, "None")
  ELSE IF r.status # 200 THEN Returned(h, t, e, "None")
  ELSE IF r.loid = None THEN LoginBody(h, t, e, r)
  ELSE IF ToStr(r.loid[1]) = None THEN Returned(h, t, e, "None")
  ELSE LoginBody(Insert(h, "x-reddit-loid", ToStr(r.loid[1])[1]), t, e, r)

LoginOutcome(h, t, e, r) ==
  IF r.kind = "error" THEN Returned(h, t, e, "None")
  ELSE IF r.loid = None THEN LoginBody(h, t, e, r)
  ELSE IF ToStr(r.loid[1]) = None THEN Returned(h, t, e, "None")
  ELSE LoginBody(Insert(h, "x-reddit-loid", ToStr(r.loid[1])[1]), t, e, r)

\* The loid header a response carries, if it carries one.
ReceivedLoidHeader(r, before) ==
  IF r.kind = "response" /\ r.loid # None THEN r.loid ELSE before

\* The text of the loid header a response carries, if it is text.
ReceivedLoid(r, before) ==
  IF r.kind = "response" /\ r.loid # None /\ ToStr(r.loid[1]) # None
    THEN ToStr(r.loid[1])[1] ELSE before

(***************************************************************************)
(* The read-write lock OAUTH_CLIENT (tokio::sync::RwLock): any number of   *)
(* readers or one writer; a task waiting for write() is served before the  *)
(* readers that come after it.                                             *)
(***************************************************************************)
\* The names under which the tasks hold read guards.
DaemonTask == << "token_daemon", 0 >>

ReaderTask(r) == << "reader", r >>

\* A write guard granted while read guards are out.
CanWriteAmongReaders == lock_writer = "none"

CanWrite == lock_writer = "none" /\ lock_readers = {}

WriterWaiting == daemon_pc = "woke"

CanRead == lock_writer = "none" /\ ~WriterWaiting

(***************************************************************************)
(* The hand-over of the lock when a write guard is dropped: the semaphore  *)
(* under the lock gives its permits to the tasks queued for them, in       *)
(* order, and only readers can be queued behind the one writer.            *)
(***************************************************************************)
ReadersAfterRelease(writer_after) ==
  IF writer_after = "none" THEN lock_readers \cup read_waiters ELSE lock_readers

WaitersAfterRelease(writer_after) ==
  IF writer_after = "none" THEN {} ELSE read_waiters

(***************************************************************************)
(* Oauth::login, up to the request (lines 52 to 88).                       *)
(***************************************************************************)
\* client.request(request) called a second time with a copy of the request.
SentTwice(n) == n + 2

\* client.request(request) is called once in login (line 88).
SentOnce(n) == n + 1

(***************************************************************************)
(* initialize()                                                            *)
(***************************************************************************)
\* OAUTH_CLIENT.write().await.login(): the lock is taken, the request is
\* built and sent (lines 123, 52 to 88).
InitialLoginSend ==
  /\ init_pc = "start"
  /\ CanWrite
  /\ lock_writer' = "initialize"
  /\ request' = BuildRequest(headers_map, device.oauth_id)
  /\ requests_in_call' = SentOnce(requests_in_call)
  /\ last_ok_status' = 0
  /\ init_pc' = "login_sent"
  /\ UNCHANGED << oauth_vars, lock_readers, read_waiters, daemon_pc,
                  daemon_locals, resp, overflow_checks, history_vars,
                  cycle_vars >>

\* client.request(request).await completes, with a response or an error.
NetworkRespond ==
  /\ \/ init_pc = "login_sent"
     \/ daemon_pc = "refresh_sent"
  /\ resp = NoResponse
  /\ \E r \in Responses : resp' = r
  /\ UNCHANGED << oauth_vars, lock_writer, lock_readers, read_waiters, init_pc,
                  daemon_pc, daemon_locals, request, requests_in_call,
                  overflow_checks, history_vars, last_ok_status, cycle_vars >>

\* What login does to the Oauth value with the response (lines 88 to 109).
ApplyLogin(out) ==
  /\ headers_map' = out.headers_map
  /\ token' = out.token
  /\ expires_in' = out.expires_in
  /\ last_result' = out.result
  /\ last_loid_header' = ReceivedLoidHeader(resp, last_loid_header)
  /\ last_loid' = ReceivedLoid(resp, last_loid)
  /\ last_ok_expires' = IF out.result = "Some" THEN out.expires_in ELSE last_ok_expires
  /\ last_ok_status' = IF out.result = "Some" THEN resp.status ELSE 0
  /\ requests_in_call' = 0
  /\ resp' = NoResponse
  /\ UNCHANGED device

\* initialize without the .unwrap(): the daemon is spawned whatever login
\* returns.
AfterInitialLoginAlways(result) ==
  /\ init_pc' = "done"
  /\ daemon_pc' = "loop"

\* What initialize does with the Option its login returns: .unwrap() and
\* tokio::spawn(token_daemon()) (lines 123 to 127).
AfterInitialLogin(result) ==
  IF result = "Some"
    THEN /\ init_pc' = "done"
         /\ daemon_pc' = "loop"
    ELSE /\ init_pc' = "panicked"
         /\ daemon_pc' = "unspawned"

\* login handles the response and returns; the write guard is dropped;
\* initialize unwraps the result and spawns the daemon (lines 88 to 109,
\* 123 to 127).
InitialLoginReturn ==
  /\ init_pc = "login_sent"
  /\ resp # NoResponse
  /\ LET out == LoginOutcome(headers_map, token, expires_in, resp)
     IN  /\ ApplyLogin(out)
         /\ initial_login' = out.result
         /\ AfterInitialLogin(out.result)
  /\ lock_writer' = "none"
  /\ lock_readers' = ReadersAfterRelease("none")
  /\ read_waiters' = WaitersAfterRelease("none")
  /\ UNCHANGED << daemon_locals, request, overflow_checks, cycle_vars >>

(***************************************************************************)
(* Oauth::refresh (lines 112 to 118): it calls login and returns what      *)
(* login returns.                                                          *)
(***************************************************************************)
\* The request of a refresh is the one its login builds.
RefreshRequest(h, oauth_id) == BuildRequest(h, oauth_id)

\* A refresh that drops what its login returns and reports success.
RefreshOutcomeResultDropped(h, t, e, r) ==
  [ LoginOutcome(h, t, e, r) EXCEPT !.result = "Some" ]

\* let refresh = self.login().await; ...; refresh
RefreshOutcome(h, t, e, r) == LoginOutcome(h, t, e, r)

(***************************************************************************)
(* token_daemon()                                                          *)
(***************************************************************************)
\* OAUTH_CLIENT.read().await: the read guard is taken (line 133).
DaemonAcquireRead ==
  /\ daemon_pc = "loop"
  /\ lock_writer = "none"
  /\ lock_readers' = lock_readers \cup { DaemonTask }
  /\ daemon_pc' = "reading"
  /\ UNCHANGED << oauth_vars, lock_writer, read_waiters, init_pc,
                  daemon_locals, request, requests_in_call, resp,
                  overflow_checks, history_vars, last_ok_status, cycle_vars >>

\* The read guard kept in a local that lives to the end of the loop body.
ReadGuardKept == lock_readers

\* The temporary read guard is dropped at the end of the let statement.
ReadGuardDropped == lock_readers \ { DaemonTask }

\* .expires_in is copied out of the guard and the guard is dropped (line 133).
DaemonCopyExpiry ==
  /\ daemon_pc = "reading"
  /\ expires_read' = expires_in
  /\ lock_readers' = ReadGuardDropped
  /\ reads_since' = reads_since + 1
  /\ daemon_pc' = "computed"
  /\ UNCHANGED << oauth_vars, lock_writer, read_waiters, init_pc, duration,
                  request, requests_in_call, resp, overflow_checks,
                  history_vars, last_ok_status, sleeps_since >>

\* The expiry itself, with no margin taken off.
SleepSecsNoMargin(e) == U64Sub(ToU64(e), ToU64(0))

\* expires_in - 120 on u64 (line 136): the difference, and whether the
\* subtraction overflows.
SleepSecs(e) == U64Sub(ToU64(e), ToU64(SafetyMarginSecs))

\* Duration::from_secs(expires_in - 120) and tokio::time::sleep (lines 136,
\* 137). A build with overflow checks panics on the overflow, which ends the
\* task; one without them sleeps for the wrapped difference.
DaemonSleep ==
  /\ daemon_pc = "computed"
  /\ IF SleepSecs(expires_read).overflow /\ overflow_checks
       THEN /\ daemon_pc' = "panicked"
            /\ UNCHANGED << duration, sleeps_since >>
       ELSE /\ duration' = SleepSecs(expires_read).value
            /\ sleeps_since' = sleeps_since + 1
            /\ daemon_pc' = "sleeping"
  /\ UNCHANGED << oauth_vars, lock_writer, lock_readers, read_waiters, init_pc,
                  expires_read, request, requests_in_call, resp,
                  overflow_checks, history_vars, last_ok_status, reads_since >>

\* The sleep ends; the daemon asks for OAUTH_CLIENT.write() (lines 137 to 143).
DaemonWake ==
  /\ daemon_pc = "sleeping"
  /\ daemon_pc' = "woke"
  /\ UNCHANGED << oauth_vars, lock_writer, lock_readers, read_waiters, init_pc,
                  daemon_locals, request, requests_in_call, resp,
                  overflow_checks, history_vars, last_ok_status, cycle_vars >>

\* The write guard is granted; refresh calls login, which builds and sends
\* the request (lines 143, 144, 115, 52 to 88).
DaemonRefreshSend ==
  /\ daemon_pc = "woke"
  /\ CanWrite
  /\ lock_writer' = "token_daemon"
  /\ request' = RefreshRequest(headers_map, device.oauth_id)
  /\ requests_in_call' = SentOnce(requests_in_call)
  /\ last_ok_status' = 0
  /\ reads_since' = 0
  /\ sleeps_since' = 0
  /\ daemon_pc' = "refresh_sent"
  /\ UNCHANGED << oauth_vars, lock_readers, read_waiters, init_pc,
                  daemon_locals, resp, overflow_checks, history_vars >>

\* A loop that tries again at once when refresh returns None.
AfterRefreshRetry(result) ==
  IF result = "Some" THEN "loop" ELSE "woke"

\* The result of refresh is dropped; the loop starts over (lines 144 to 146).
AfterRefresh(result) == "loop"

\* A write guard that outlives the block of the refresh.
WriteGuardKept == lock_writer

\* The write guard is dropped at the end of its block (line 145).
WriteGuardDropped == "none"

\* login handles the response and returns, refresh returns its result, the
\* write guard is dropped (lines 88 to 109, 115 to 117, 145).
DaemonRefreshReturn ==
  /\ daemon_pc = "refresh_sent"
  /\ resp # NoResponse
  /\ LET out == RefreshOutcome(headers_map, token, expires_in, resp)
     IN  /\ ApplyLogin(out)
         /\ daemon_pc' = AfterRefresh(out.result)
  /\ lock_writer' = WriteGuardDropped
  /\ lock_readers' = ReadersAfterRelease(WriteGuardDropped)
  /\ read_waiters' = WaitersAfterRelease(WriteGuardDropped)
  /\ UNCHANGED << init_pc, daemon_locals, request, overflow_checks,
                  initial_login, cycle_vars >>

(***************************************************************************)
(* The tasks that read the token or the headers under OAUTH_CLIENT.read(). *)
(***************************************************************************)
\* read() is granted at once when no writer holds or waits for the lock.
ReaderAcquire(r) ==
  /\ init_pc # "panicked"
  /\ ReaderTask(r) \notin lock_readers \cup read_waiters
  /\ CanRead
  /\ lock_readers' = lock_readers \cup { ReaderTask(r) }
  /\ UNCHANGED << oauth_vars, lock_writer, read_waiters, init_pc, daemon_pc,
                  daemon_locals, request, requests_in_call, resp,
                  overflow_checks, history_vars, last_ok_status, cycle_vars >>

\* read() is queued when a writer holds or waits for the lock.
ReaderWait(r) ==
  /\ init_pc # "panicked"
  /\ ReaderTask(r) \notin lock_readers \cup read_waiters
  /\ ~CanRead
  /\ read_waiters' = read_waiters \cup { ReaderTask(r) }
  /\ UNCHANGED << oauth_vars, lock_writer, lock_readers, init_pc, daemon_pc,
                  daemon_locals, request, requests_in_call, resp,
                  overflow_checks, history_vars, last_ok_status, cycle_vars >>

ReaderRelease(r) ==
  /\ ReaderTask(r) \in lock_readers
  /\ lock_readers' = lock_readers \ { ReaderTask(r) }
  /\ UNCHANGED << oauth_vars, lock_writer, read_waiters, init_pc, daemon_pc,
                  daemon_locals, request, requests_in_call, resp,
                  overflow_checks, history_vars, last_ok_status, cycle_vars >>

Next ==
  \/ InitialLoginSend
  \/ NetworkRespond
  \/ InitialLoginReturn
  \/ DaemonAcquireRead
  \/ DaemonCopyExpiry
  \/ DaemonSleep
  \/ DaemonWake
  \/ DaemonRefreshSend
  \/ DaemonRefreshReturn
  \/ \E r \in Readers : ReaderAcquire(r)
  \/ \E r \in Readers : ReaderWait(r)
  \/ \E r \in Readers : ReaderRelease(r)

Spec == Init /\ [][Next]_vars

(***************************************************************************)
(* The same program under the scheduling it runs with: the runtime runs a  *)
(* task that can take a step, every HTTP exchange completes, and a reader  *)
(* drops its guard; a reader is free never to ask for one.  One device.    *)
(***************************************************************************)
FairDevices == { DeviceAndroid(u, 1) : u \in Uuids }

FairInit == Init /\ device \in FairDevices

Scheduled ==
  \/ InitialLoginSend
  \/ NetworkRespond
  \/ InitialLoginReturn
  \/ DaemonAcquireRead
  \/ DaemonCopyExpiry
  \/ DaemonSleep
  \/ DaemonWake
  \/ DaemonRefreshSend
  \/ DaemonRefreshReturn
  \/ \E r \in Readers : ReaderRelease(r)

FairSpec == FairInit /\ [][Next]_vars /\ WF_vars(Scheduled)

(***************************************************************************)
(* Steps and observations the properties below are about.                  *)
(***************************************************************************)
\* login handles its response and returns in this step.
LoginReturns == resp # NoResponse /\ resp' = NoResponse

\* login builds and sends its request in this step.
LoginSends == lock_writer = "none" /\ lock_writer' # "none"

\* An exchange is in flight: login holds the write guard.
InFlight == lock_writer # "none"

\* The body of r is JSON with a string access_token and an unsigned
\* integer expires_in.
GoodBody(r) ==
  /\ r.kind = "response"
  /\ r.body.read_ok
  /\ r.body.json # None
  /\ r.body.json[1].type = "object"
  /\ "access_token" \in DOMAIN r.body.json[1].fields
  /\ r.body.json[1].fields["access_token"].type = "string"
  /\ "expires_in" \in DOMAIN r.body.json[1].fields
  /\ r.body.json[1].fields["expires_in"].type = "number"
  /\ r.body.json[1].fields["expires_in"].num >= 0

BodyToken(r) == r.body.json[1].fields["access_token"].str

BodyExpires(r) == r.body.json[1].fields["expires_in"].num

\* The loid header of r, if any, is text.
LoidIsText(r) == r.loid = None \/ r.loid[1].visible_ascii

\* The Basic credentials of the two client ids, as base64 encodes them.
ExpectedBasic(oauth_id) ==
  IF oauth_id = "ohXpoqrZYub1kg" THEN "Basic b2hYcG9xclpZdWIxa2c6"
  ELSE "Basic TE5EbzlrMW84VUFFVXc6"

\* The (name, value) pairs of the stored headers other than Authorization.
StoredWithoutAuthorization ==
  { << HeaderNameLower(k), headers_map[k] >> : k \in (DOMAIN headers_map) \ { "Authorization" } }

BearerValues == { "Bearer " \o t : t \in Tokens \cup { "" } }

(***************************************************************************)
(* C1. A login or refresh that returns failure leaves token, expires_in    *)
(* and the whole headers_map as they were before the call.                 *)
(***************************************************************************)
C1_FailedExchangeChangesNothing ==
  [][ (LoginReturns /\ last_result' = "None")
        => (token' = token /\ expires_in' = expires_in /\ headers_map' = headers_map) ]_vars

(***************************************************************************)
(* C2. Whenever no exchange holds write access and the first login has     *)
(* succeeded, headers_map["Authorization"] is "Bearer " followed by token. *)
(***************************************************************************)
C2_ReadersSeeTokenAndHeaderAgree ==
  (~InFlight /\ initial_login = "Some")
    => /\ "Authorization" \in DOMAIN headers_map
       /\ headers_map["Authorization"] = "Bearer " \o token

(***************************************************************************)
(* C3, as claimed. Whenever the body of the response is JSON with a string *)
(* access_token T and an unsigned integer expires_in E, login returns      *)
(* success with token = T, expires_in = E, Authorization = "Bearer " T.    *)
(***************************************************************************)
C3_GoodBodyAlwaysSucceeds ==
  [][ (LoginReturns /\ GoodBody(resp))
        => /\ last_result' = "Some"
           /\ token' = BodyToken(resp)
           /\ expires_in' = BodyExpires(resp)
           /\ "Authorization" \in DOMAIN headers_map'
           /\ headers_map'["Authorization"] = "Bearer " \o BodyToken(resp) ]_vars

(***************************************************************************)
(* C3, amended. The same, for a response whose x-reddit-loid header, if it *)
(* has one, is text: login returns success with token = T, expires_in = E  *)
(* and Authorization = "Bearer " T, all three in the one step.             *)
(***************************************************************************)
C3_GoodResponseSucceeds ==
  [][ (LoginReturns /\ GoodBody(resp) /\ LoidIsText(resp))
        => /\ last_result' = "Some"
           /\ token' = BodyToken(resp)
           /\ expires_in' = BodyExpires(resp)
           /\ "Authorization" \in DOMAIN headers_map'
           /\ headers_map'["Authorization"] = "Bearer " \o BodyToken(resp) ]_vars

\* A login has returned success with abc123 and 3600.
C3_Witness ==
  /\ last_result = "Some"
  /\ resp = NoResponse
  /\ token = "abc123"
  /\ expires_in = 3600
  /\ "Authorization" \in DOMAIN headers_map
  /\ headers_map["Authorization"] = "Bearer abc123"

(***************************************************************************)
(* C4. The headers of every request login builds are the stored headers    *)
(* without the Authorization entry, plus one Authorization header with the *)
(* Basic credentials of the client id; no Bearer value is ever sent.       *)
(***************************************************************************)
C4_NoBearerOnTokenRequests ==
  /\ InFlight =>
       /\ request.headers =
            StoredWithoutAuthorization
              \cup { << "authorization", ExpectedBasic(device.oauth_id) >> }
       /\ Cardinality({ p \in request.headers : p[1] = "authorization" }) = 1
       /\ request.method = "POST"
  /\ \A p \in request.headers : p[2] \notin BearerValues

\* A refresh is in flight while a Bearer value is stored.
C4_Witness ==
  /\ lock_writer = "token_daemon"
  /\ "Authorization" \in DOMAIN headers_map
  /\ headers_map["Authorization"] \in BearerValues
  /\ << "authorization", ExpectedBasic(device.oauth_id) >> \in request.headers

(***************************************************************************)
(* C5. While the daemon sleeps it holds neither read nor write access; the *)
(* read guard is held only while expires_in is copied and the write guard  *)
(* only while refresh runs, whatever refresh returns.                      *)
(***************************************************************************)
C5_DaemonSleepsWithoutLock ==
  /\ daemon_pc = "sleeping" =>
       (DaemonTask \notin lock_readers /\ lock_writer # "token_daemon")
  /\ DaemonTask \in lock_readers => daemon_pc = "reading"
  /\ lock_writer = "token_daemon" => daemon_pc = "refresh_sent"

\* The daemon sleeps after a refresh that failed.
C5_Witness ==
  /\ daemon_pc = "sleeping"
  /\ last_result = "None"
  /\ lock_writer = "none"
  /\ DaemonTask \notin lock_readers

(***************************************************************************)
(* C6. The daemon takes no step before the initial login has returned      *)
(* success; if the initial login fails, initialize panics, the daemon is   *)
(* never started and no refresh is attempted.                              *)
(***************************************************************************)
C6_StartupBarrier ==
  /\ daemon_pc # "unspawned" => (initial_login = "Some" /\ init_pc = "done")
  /\ lock_writer = "token_daemon" => initial_login = "Some"
  /\ initial_login = "None" => (init_pc = "panicked" /\ daemon_pc = "unspawned")
  /\ initial_login = "pending" => daemon_pc = "unspawned"

\* The initial login has failed.
C6_Witness ==
  /\ initial_login = "None"
  /\ init_pc = "panicked"
  /\ daemon_pc = "unspawned"

(***************************************************************************)
(* C7. When a refresh fails the daemon goes back to the start of its loop; *)
(* every refresh attempt follows exactly one expiry read and one sleep     *)
(* since the attempt before it, and the sleep is computed from the stored  *)
(* expires_in, which a failed refresh has left as it was.                  *)
(***************************************************************************)
C7_FailedRefreshWaitsAFullCycle ==
  [][ /\ (daemon_pc = "refresh_sent" /\ LoginReturns /\ last_result' = "None")
         => (daemon_pc' = "loop" /\ expires_in' = expires_in)
      /\ (daemon_pc # "refresh_sent" /\ daemon_pc' = "refresh_sent")
         => (reads_since = 1 /\ sleeps_since = 1 /\ daemon_pc = "woke")
      /\ (daemon_pc # "sleeping" /\ daemon_pc' = "sleeping")
         => /\ expires_read = expires_in
            /\ duration' = U64Sub(ToU64(expires_in), ToU64(120)).value ]_vars

\* The daemon sleeps again after a refresh that failed.
C7_Witness ==
  /\ daemon_pc = "sleeping"
  /\ last_result = "None"
  /\ reads_since = 1
  /\ sleeps_since = 1

(***************************************************************************)
(* C8. An expires_in of 120 or less is an error condition: the daemon      *)
(* never sleeps for expires_in - 120 computed modulo 2^64.  The formula is *)
(* the clause on the sleep: the daemon never sleeps on an expiry it read   *)
(* below the margin.                                                       *)
(***************************************************************************)
C8_NeverSleepsOnWrappedDuration ==
  daemon_pc = "sleeping" => expires_read >= 120

(***************************************************************************)
(* C9. While the daemon sleeps, the expiry it read is the one the last     *)
(* successful exchange set, and for an expiry E >= 120 the sleep is        *)
(* E - 120 seconds: 3480 for 3600.                                         *)
(***************************************************************************)
C9_SleepIsExpiryMinusMargin ==
  daemon_pc = "sleeping" =>
    /\ expires_read = last_ok_expires
    /\ expires_read >= 120 => duration = << expires_read - 120, 0, 0, 0 >>
    /\ expires_read = 3600 => duration = << 3480, 0, 0, 0 >>

\* The daemon sleeps 3480 seconds on an expiry of 3600.
C9_Witness ==
  /\ daemon_pc = "sleeping"
  /\ expires_read = 3600
  /\ duration = << 3480, 0, 0, 0 >>

(***************************************************************************)
(* C10, as claimed. Once a response has carried an x-reddit-loid header,   *)
(* the request of every later exchange carries that header with the value  *)
(* received last.                                                          *)
(***************************************************************************)
C10_EveryLoidIsReplayed ==
  (InFlight /\ last_loid_header # None)
    => /\ last_loid_header[1].visible_ascii
       /\ << "x-reddit-loid", last_loid_header[1].text >> \in request.headers

(***************************************************************************)
(* C10, amended. Once a response has carried an x-reddit-loid header whose *)
(* value is text, the request of every later exchange carries that header  *)
(* once, with the text received last; a response that carries the stored   *)
(* text again leaves every stored header but Authorization as it was.      *)
(***************************************************************************)
C10_TextLoidIsReplayed ==
  [][ /\ (LoginSends /\ last_loid # "none")
         => { p \in request'.headers : p[1] = "x-reddit-loid" }
              = { << "x-reddit-loid", last_loid >> }
      /\ (LoginReturns /\ resp.loid # None /\ resp.loid[1].visible_ascii)
         => /\ "x-reddit-loid" \in DOMAIN headers_map'
            /\ headers_map'["x-reddit-loid"] = resp.loid[1].text
      /\ ( /\ LoginReturns /\ resp.loid # None /\ resp.loid[1].visible_ascii
           /\ "x-reddit-loid" \in DOMAIN headers_map
           /\ headers_map["x-reddit-loid"] = resp.loid[1].text )
         => /\ (DOMAIN headers_map') \ { "Authorization" }
                 = (DOMAIN headers_map) \ { "Authorization" }
            /\ \A k \in (DOMAIN headers_map) \ { "Authorization" } :
                 headers_map'[k] = headers_map[k] ]_vars

\* After a failed exchange, a refresh is in flight whose request replays
\* the loid received last.
C10_Witness ==
  /\ lock_writer = "token_daemon"
  /\ last_loid = "uvw"
  /\ << "x-reddit-loid", "uvw" >> \in request.headers
  /\ last_result = "None"

(***************************************************************************)
(* C11. token is empty exactly when no login or refresh has returned       *)
(* success yet.                                                            *)
(***************************************************************************)
C11_TokenEmptyUntilFirstSuccess ==
  (token = "") <=> (last_ok_expires = -1)

(***************************************************************************)
(* C12. The device never changes; every header entry made at construction  *)
(* keeps its value in headers_map, and the keys of headers_map are those   *)
(* of construction plus at most "Authorization" and "x-reddit-loid".       *)
(***************************************************************************)
C12_DeviceIdentityIsKept ==
  [][ /\ device' = device
      /\ \A k \in DOMAIN device.headers :
           k \in DOMAIN headers_map' /\ headers_map'[k] = device.headers[k]
      /\ (DOMAIN headers_map') \subseteq
           (DOMAIN device.headers) \cup { "Authorization", "x-reddit-loid" }
      /\ (DOMAIN headers_map) \subseteq (DOMAIN headers_map') ]_vars

\* Both entries have been added, and an exchange has failed since.
C12_Witness ==
  /\ DOMAIN headers_map = (DOMAIN device.headers) \cup { "Authorization", "x-reddit-loid" }
  /\ last_result = "None"
  /\ \A k \in DOMAIN device.headers : headers_map[k] = device.headers[k]

(***************************************************************************)
(* C13. Every device Device::random() makes has headers; an Android one    *)
(* has exactly 3 entries, an Android user agent and the Android client id; *)
(* an iOS one has exactly 5 entries, an iOS user agent, one of the five    *)
(* device models, the density "2" and the iOS client id; no client id goes *)
(* with the user agents of the other platform.                             *)
(***************************************************************************)
C13_DeviceMatchesItsPlatform ==
  LET keys == DOMAIN device.headers
      android_agents == { "Reddit/Version 2023.21.0/Build 956283/Android 13",
                          "Reddit/Version 2023.21.0/Build 968223/Android 10",
                          "Reddit/Version 2023.21.0/Build 946732/Android 12" }
      ios_agents == { "Reddit/Version 2023.22.0/Build 613580/iOS Version 17.0 (Build 21A5248V)",
                      "Reddit/Version 2023.22.0/Build 613580/iOS Version 16.0 (Build 20A5328h)",
                      "Reddit/Version 2023.22.0/Build 613580/iOS Version 16.5" }
      models == { "iPhone8,1", "iPhone11,1", "iPhone12,1", "iPhone13,1", "iPhone14,1" }
  IN  /\ keys # {}
      /\ device.oauth_id \in { "ohXpoqrZYub1kg", "LNDo9k1o8UAEUw" }
      /\ device.headers["Client-Vendor-Id"] = device.headers["X-Reddit-Device-Id"]
      /\ device.oauth_id = "ohXpoqrZYub1kg" =>
           /\ keys = { "Client-Vendor-Id", "X-Reddit-Device-Id", "User-Agent" }
           /\ Cardinality(keys) = 3
           /\ device.headers["User-Agent"] \in android_agents
           /\ device.headers["User-Agent"] \notin ios_agents
      /\ device.oauth_id = "LNDo9k1o8UAEUw" =>
           /\ keys = { "X-Reddit-DPR", "Device-Name", "X-Reddit-Device-Id",
                       "User-Agent", "Client-Vendor-Id" }
           /\ Cardinality(keys) = 5
           /\ device.headers["User-Agent"] \in ios_agents
           /\ device.headers["User-Agent"] \notin android_agents
           /\ device.headers["Device-Name"] \in models
           /\ device.headers["X-Reddit-DPR"] = "2"

\* An iOS device with the last user agent and the last model of the pools.
C13_Witness ==
  /\ device.oauth_id = "LNDo9k1o8UAEUw"
  /\ device.headers["Device-Name"] = "iPhone14,1"
  /\ device.headers["User-Agent"] = "Reddit/Version 2023.22.0/Build 613580/iOS Version 16.5"
  /\ Cardinality(DOMAIN device.headers) = 5

(***************************************************************************)
(* C14. refresh is login: from the same stored state the daemon's refresh  *)
(* sends the request login sends (method, uri, headers, body), and with    *)
(* the same response it returns what login returns and leaves token,       *)
(* expires_in and headers_map as login leaves them.                        *)
(***************************************************************************)
C14_RefreshIsLogin ==
  [][ /\ (daemon_pc = "woke" /\ daemon_pc' = "refresh_sent")
         => /\ request' = BuildRequest(headers_map, device.oauth_id)
            /\ request'.method = "POST"
            /\ request'.uri = "https://accounts.reddit.com/api/access_token"
      /\ (daemon_pc = "refresh_sent" /\ LoginReturns)
         => LET login == LoginOutcome(headers_map, token, expires_in, resp)
            IN  /\ last_result' = login.result
                /\ token' = login.token
                /\ expires_in' = login.expires_in
                /\ headers_map' = login.headers_map ]_vars

\* A refresh has returned None, as login does on the same response, after it
\* stored the token of that response.
C14_Witness ==
  /\ initial_login = "Some"
  /\ daemon_pc = "loop"
  /\ last_result = "None"
  /\ token = "def456"
  /\ headers_map["Authorization"] = "Bearer abc123"

(***************************************************************************)
(* C15. The renewal loop has no terminal state: whatever expires_in the    *)
(* endpoint returns, the daemon never reaches a state it cannot leave.     *)
(***************************************************************************)
C15_DaemonHasNoTerminalState == daemon_pc # "panicked"

(***************************************************************************)
(* C16. Writes are exclusive: at most one exchange is in flight, the       *)
(* initial login and a refresh of the daemon never overlap, and no read    *)
(* guard is out while an exchange holds the write guard.                   *)
(***************************************************************************)
C16_ExclusiveWrites ==
  /\ ~(init_pc = "login_sent" /\ daemon_pc = "refresh_sent")
  /\ (lock_writer = "initialize") = (init_pc = "login_sent")
  /\ (lock_writer = "token_daemon") = (daemon_pc = "refresh_sent")
  /\ lock_writer \in { "none", "initialize", "token_daemon" }
  /\ InFlight => lock_readers = {}

\* Two read guards are out at the same time, the daemon's and a reader's,
\* and no exchange is in flight.
C16_Witness ==
  /\ ~InFlight
  /\ DaemonTask \in lock_readers
  /\ \E r \in Readers : ReaderTask(r) \in lock_readers
  /\ Cardinality(lock_readers) >= 2

(***************************************************************************)
(* C17. A login or refresh sends one request: one request has been sent    *)
(* in every call that is running, also when its answer is a transport      *)
(* error, none is sent outside a call, and a call is made only by          *)
(* initialize and by the daemon after its sleep.                           *)
(***************************************************************************)
C17_OneRequestPerCall ==
  [][ /\ requests_in_call = (IF InFlight THEN 1 ELSE 0)
      /\ LoginSends => /\ requests_in_call' = requests_in_call + 1
                       /\ init_pc = "start" \/ daemon_pc = "woke"
      /\ LoginReturns => requests_in_call = 1 /\ ~InFlight'
      /\ requests_in_call' # requests_in_call => LoginSends \/ LoginReturns
      /\ request' # request => LoginSends ]_vars

\* The one request of a refresh has been answered by a transport error and
\* no other request has been sent.
C17_Witness ==
  /\ daemon_pc = "refresh_sent"
  /\ resp = TransportError
  /\ requests_in_call = 1

(***************************************************************************)
(* C18. A login or refresh that returns failure leaves expires_in and the  *)
(* Authorization entry of headers_map as they were, and the expiry the     *)
(* daemon sleeps on is that of the last successful exchange.               *)
(***************************************************************************)
C18_ExpiryAndHeaderChangeOnlyOnSuccess ==
  [][ /\ (LoginReturns /\ last_result' = "None")
         => /\ expires_in' = expires_in
            /\ ("Authorization" \in DOMAIN headers_map')
                 = ("Authorization" \in DOMAIN headers_map)
            /\ "Authorization" \in DOMAIN headers_map
                 => headers_map'["Authorization"] = headers_map["Authorization"]
      /\ expires_in' # expires_in => (LoginReturns /\ last_result' = "Some")
      /\ (daemon_pc # "computed" /\ daemon_pc' = "computed")
         => expires_read' = last_ok_expires ]_vars

\* A refresh has failed after it changed the token: the expiry and the
\* Authorization header are those of the exchange before it.
C18_Witness ==
  /\ last_result = "None"
  /\ token = "def456"
  /\ "Authorization" \in DOMAIN headers_map
  /\ headers_map["Authorization"] = "Bearer abc123"
  /\ expires_in = 3600
  /\ last_ok_expires = 3600

(***************************************************************************)
(* C19. A reader that asks for read access while an exchange is in flight  *)
(* gets it in the step in which that exchange returns and not before; a    *)
(* reader waits only while a write guard is held or asked for, never while *)
(* the daemon sleeps; and every reader that waits gets read access.        *)
(***************************************************************************)
C19_WaitersEnterOnlyAtReturn ==
  [][ /\ \A r \in Readers :
           (ReaderTask(r) \in read_waiters /\ ReaderTask(r) \notin read_waiters')
             => /\ InFlight /\ ~InFlight' /\ LoginReturns
                /\ ReaderTask(r) \in lock_readers'
      /\ \A r \in Readers :
           (InFlight /\ ReaderTask(r) \notin lock_readers
              /\ ReaderTask(r) \in lock_readers') => LoginReturns ]_vars

C19_WaitOnlyForAWriter ==
  /\ read_waiters # {} => InFlight \/ daemon_pc = "woke"
  /\ daemon_pc = "sleeping" => read_waiters = {} /\ CanRead
  /\ InFlight => ~CanRead

C19_WaitersAreServed ==
  \A r \in Readers :
    (ReaderTask(r) \in read_waiters) ~> (ReaderTask(r) \in lock_readers)

C19_ReadersBlockedForTheRoundTrip ==
  /\ C19_WaitersEnterOnlyAtReturn
  /\ []C19_WaitOnlyForAWriter
  /\ C19_WaitersAreServed

\* A reader is queued behind the refresh of the daemon, whose response has
\* arrived and is being handled.
C19_Witness ==
  /\ daemon_pc = "refresh_sent"
  /\ lock_writer = "token_daemon"
  /\ resp.kind = "response"
  /\ \E r \in Readers : ReaderTask(r) \in read_waiters

(***************************************************************************)
(* C20. The status of the response plays no part: login returns Some       *)
(* exactly when there is a response, its loid header, if any, is text and  *)
(* its body is JSON with a string access_token and an unsigned expires_in; *)
(* the same response under any other status has the same outcome; a        *)
(* response of status 500 with such a body replaces the stored token.      *)
(***************************************************************************)
C20_StatusPlaysNoPart ==
  [][ LoginReturns
      => /\ (last_result' = "Some")
              = (resp.kind = "response" /\ LoidIsText(resp) /\ GoodBody(resp))
         /\ \A s \in StatusCodes :
              resp.kind = "response"
                => LoginOutcome(headers_map, token, expires_in,
                                [ resp EXCEPT !.status = s ])
                     = Returned(headers_map', token', expires_in', last_result')
         /\ (resp.kind = "response" /\ resp.status # 200 /\ LoidIsText(resp)
               /\ GoodBody(resp))
              => /\ token' = BodyToken(resp)
                 /\ expires_in' = BodyExpires(resp)
                 /\ headers_map'["Authorization"] = "Bearer " \o BodyToken(resp) ]_vars

\* A refresh answered 500 with a good body has replaced the token of the
\* initial login.
C20_Witness ==
  /\ last_result = "Some"
  /\ last_ok_status = 500
  /\ initial_login = "Some"
  /\ daemon_pc = "loop"
  /\ token = "def456"
  /\ headers_map["Authorization"] = "Bearer def456"

====
